---- MODULE Spec2Model ----
(***************************************************************************)
(* Model of the pull-request notification bot: the Bitbucket poller        *)
(* (BitbucketService), the outbound delivery queue (PachkaService) and the *)
(* thread store (MessageStoreService).                                     *)
(*                                                                         *)
(* JavaScript strings are modelled as sequences, so that the empty string  *)
(* is <<>>, a decimal rendering of a number n is <<n>>, a repository slug  *)
(* "r1" is <<"r1">> and a Bitbucket full name "ws/r1" is <<"ws", "r1">>.   *)
(* An absent (undefined) number is 0, which JavaScript also treats as      *)
(* falsy.                                                                  *)
(***************************************************************************)
EXTENDS Integers, Sequences, FiniteSets, TLC

\* -------------------------------------------------------------------------
\* Bounds of the model
\* -------------------------------------------------------------------------

\* Longest queue the model explores: an enqueue that would exceed it waits.
MaxQueue == 2

\* Number of cron callbacks of processMessageQueue that may be alive at once.
NumDrainInvs == 2

\* -------------------------------------------------------------------------
\* Configuration and program constants
\* -------------------------------------------------------------------------

MAX_RETRIES == 3

\* bitbucket.workspaces: one workspace with two repositories; the second has
\* no pull request.
Workspace == "ws"

Repositories == <<"r1", "r2">>

\* The pull requests that exist on the Bitbucket side: <<repository, id>>.
PullRequests == {<<"r1", 1>>}

\* Ids of pull requests that were closed before the process started: they
\* are unknown to Bitbucket (404) but message-store.json may still hold them.
StaleIds == {2}

PrIds == {pr[2] : pr \in PullRequests} \cup StaleIds

\* pachka.reviewers (REVIEWER_MAPPINGS): display name -> chat mention.
reviewerMappings == [n \in {"A"} |-> "@a"]

DrainInvs == 1..NumDrainInvs

\* The checkPullRequests callbacks: the model runs one poll cycle at a time.
PollInvs == {1}

\* workSchedule defaults (loadWorkScheduleConfig).
workDays == {1, 2, 3, 4, 5}

StartHour == 10

EndHour == 18

\* The instants at which the model lets the poll callback fire.
Clock == {[day |-> d, hour |-> h] : d \in {0, 1}, h \in {9, 10, 17, 18}}

\* -------------------------------------------------------------------------
\* Strings and conversions
\* -------------------------------------------------------------------------

Undefined == <<>>

\* Number.prototype.toString for the ids the program handles.
ToStr(n) == <<n>>

\* Unary plus on a decimal string (removeFromStore's +prId).
ToNum(s) == IF Len(s) = 1 THEN s[1] ELSE 0

\* The configured repository slug, as the string the code compares.
Slug(repo) == <<repo>>

\* pr.source.repository.full_name as Bitbucket reports it: "workspace/slug".
FullName(ws, repo) == <<ws, repo>>

\* -------------------------------------------------------------------------
\* Pull-request snapshots (interfaces/pull-request.interface.ts)
\* -------------------------------------------------------------------------

Author == "Au"

\* participants.find(...) that finds nothing: every field reads as undefined.
NoParticipant == [user |-> "", approved |-> FALSE, state |-> "undefined"]

\* The reviewer states the Bitbucket side moves between in this model.
RvNone == [reviewers |-> <<>>, participants |-> <<>>]

RvPending ==
    [reviewers |-> <<"A", "B">>,
     participants |-> <<[user |-> "A", approved |-> TRUE, state |-> "approved"],
                        [user |-> "B", approved |-> FALSE, state |-> "pending"]>>]

RvApproved ==
    [reviewers |-> <<"A", "B">>,
     participants |-> <<[user |-> "A", approved |-> TRUE, state |-> "approved"],
                        [user |-> "B", approved |-> TRUE, state |-> "approved"]>>]

RvChanges ==
    [reviewers |-> <<"A">>,
     participants |-> <<[user |-> "A", approved |-> FALSE,
                         state |-> "changes_requested"]>>]

ReviewStates == {RvNone, RvPending, RvApproved, RvChanges}

\* The PullRequest value the Bitbucket API returns for an open pull request.
Snapshot(repo, id, rv) ==
    [id |-> id,
     state |-> "OPEN",
     author |-> Author,
     reviewers |-> rv.reviewers,
     participants |-> rv.participants,
     full_name |-> FullName(Workspace, repo)]

\* pr.participants.find((p) => p.user.account_id === reviewer.account_id)
FindParticipant(pr, account) ==
    LET hits == {k \in DOMAIN pr.participants : pr.participants[k].user = account}
    IN  IF hits = {} THEN NoParticipant
        ELSE pr.participants[CHOOSE k \in hits : \A j \in hits : k <= j]

\* Variant that counts a reviewer who requested changes as pending.
IsPending_IgnoreChanges(pr, account) == ~FindParticipant(pr, account).approved

\* !participant?.approved && participant?.state !== 'changes_requested'
IsPending(pr, account) ==
    LET p == FindParticipant(pr, account)
    IN  ~p.approved /\ p.state # "changes_requested"

\* BitbucketService.hasPendingReviewers: reviewers.some(...)
hasPendingReviewers(pr) ==
    \E k \in DOMAIN pr.reviewers : IsPending(pr, pr.reviewers[k])

\* Array.prototype.filter, keeping order.
RECURSIVE FilterSeq(_, _)
FilterSeq(s, keep) ==
    IF s = <<>> THEN <<>>
    ELSE IF Head(s) \in keep THEN <<Head(s)>> \o FilterSeq(Tail(s), keep)
    ELSE FilterSeq(Tail(s), keep)

\* mention ? `${displayName} - ${mention}` : displayName
WithMention(name) ==
    IF name \in DOMAIN reviewerMappings THEN <<name, reviewerMappings[name]>>
    ELSE <<name>>

\* A formatter that returns null.
NullMessage == [kind |-> "null", author |-> <<>>, lines |-> <<>>]

\* PachkaService.formatPullRequestMessage: the root message, one line per
\* reviewer with its status glyph.
formatPullRequestMessage(pr) ==
    [kind |-> "new",
     author |-> <<pr.author>>,
     lines |-> [k \in DOMAIN pr.reviewers |->
                  LET p == FindParticipant(pr, pr.reviewers[k])
                  IN  <<IF p.approved THEN "approved"
                        ELSE IF p.state = "changes_requested" THEN "changes"
                        ELSE "pending",
                        pr.reviewers[k]>>]]

\* Variant of the update message without the reviewers.length > 0 test.
formatPullRequestUpdateMessage_NoLengthTest(pr) ==
    LET pendingNames ==
            FilterSeq(pr.reviewers,
                      {n \in {pr.reviewers[k] : k \in DOMAIN pr.reviewers} :
                          IsPending(pr, n)})
        pendingReviewers ==
            [k \in DOMAIN pendingNames |-> WithMention(pendingNames[k])]
        allReviewersApproved ==
            \A k \in DOMAIN pr.reviewers :
                FindParticipant(pr, pr.reviewers[k]).approved = TRUE
    IN  IF pr.state = "OPEN" /\ allReviewersApproved
        THEN [kind |-> "approved",
              author |-> WithMention(pr.author),
              lines |-> [k \in DOMAIN pr.reviewers |->
                           <<"approved", pr.reviewers[k]>>]]
        ELSE IF Len(pendingReviewers) > 0
        THEN [kind |-> "reminder", author |-> <<>>, lines |-> pendingReviewers]
        ELSE NullMessage

\* PachkaService.formatPullRequestUpdateMessage
formatPullRequestUpdateMessage(pr) ==
    LET pendingNames ==
            FilterSeq(pr.reviewers,
                      {n \in {pr.reviewers[k] : k \in DOMAIN pr.reviewers} :
                          IsPending(pr, n)})
        pendingReviewers ==
            [k \in DOMAIN pendingNames |-> WithMention(pendingNames[k])]
        allReviewersApproved ==
            /\ Len(pr.reviewers) > 0
            /\ \A k \in DOMAIN pr.reviewers :
                   FindParticipant(pr, pr.reviewers[k]).approved = TRUE
    IN  IF pr.state = "OPEN" /\ allReviewersApproved
        THEN [kind |-> "approved",
              author |-> WithMention(pr.author),
              lines |-> [k \in DOMAIN pr.reviewers |->
                           <<"approved", pr.reviewers[k]>>]]
        ELSE IF Len(pendingReviewers) > 0
        THEN [kind |-> "reminder", author |-> <<>>, lines |-> pendingReviewers]
        ELSE NullMessage

\* sendStartupMessage / sendError texts.
StartupMessage == [kind |-> "startup", author |-> <<>>, lines |-> <<>>]

ErrorMessage == [kind |-> "error", author |-> <<>>, lines |-> <<>>]

\* -------------------------------------------------------------------------
\* Thread store (MessageStoreService); updatedAt is not modelled
\* -------------------------------------------------------------------------

NoRecord == [messageId |-> <<>>, repository |-> <<>>]

EmptyStore == [id \in PrIds |-> NoRecord]

\* getMessageId: this.store[prId]?.messageId || null
getMessageId(st, prId) ==
    IF prId \in DOMAIN st THEN st[prId].messageId ELSE Undefined

\* getAllPRs: Object.entries(this.store).map(...), keys in ascending order.
RECURSIVE EntriesFrom(_, _)
EntriesFrom(st, ids) ==
    IF ids = {} THEN <<>>
    ELSE LET id == CHOOSE x \in ids : \A y \in ids : x <= y
         IN  <<[prId |-> ToStr(id),
                repository |-> st[id].repository,
                messageId |-> st[id].messageId]>>
             \o EntriesFrom(st, ids \ {id})

getAllPRs(st) == EntriesFrom(st, {id \in DOMAIN st : st[id] # NoRecord})

\* Variant of removePR that does not compare the repository.
removePR_AnyRepository(st, prId, repository) ==
    [st EXCEPT ![prId] = [messageId |-> <<>>, repository |-> <<>>]]

\* removePR up to its saveStore: the map is left as it is when there is no
\* entry for prId or the entry's repository is another one; otherwise the
\* entry is deleted.
removePR(st, prId, repository) ==
    IF st[prId] = NoRecord THEN st
    ELSE IF st[prId].repository # repository THEN st
    ELSE [st EXCEPT ![prId] = NoRecord]

\* saveMessageId's argument check: !messageId || !prId || !repository
InvalidMessageData_NoThreadCheck(prId, messageId, repository) ==
    prId = 0 \/ repository = <<>>

InvalidMessageData(prId, messageId, repository) ==
    messageId = <<>> \/ prId = 0 \/ repository = <<>>

\* -------------------------------------------------------------------------
\* State
\* -------------------------------------------------------------------------

VARIABLES
    phase,         \* "boot", "init" (BitbucketService.onModuleInit), "running", "failed";
                   \* "input" and "output" around a single sendPullRequestNotification
    bb,            \* the Bitbucket side: state and reviewer state of each pull request
    file,          \* message-store.json: [exists, doc]
    store,         \* MessageStoreService.store
    messageQueue,  \* PachkaService.messageQueue
    isProcessing,  \* PachkaService.isProcessing
    drainPc,       \* where each processMessageQueue callback is suspended
    drainLoc,      \* its locals: message, messageId, thread id, content being written
    initPc,        \* where onModuleInit is suspended
    initRepo,      \* index of the repository processAllRepositories is at
    pollPc,        \* where each checkPullRequests callback is suspended
    pollLoc,       \* its locals: storedPRs, activePRIds, repository index, sweep
    rootsPosted,   \* history: root messages the gateway accepted for each pull
                   \* request since it was opened (counted up to 2)
    ev             \* history: the last step taken

vars == <<phase, bb, file, store, messageQueue, isProcessing, drainPc, drainLoc,
          initPc, initRepo, pollPc, pollLoc, rootsPosted, ev>>

drainVars == <<isProcessing, drainPc, drainLoc>>

initVars == <<initPc, initRepo>>

pollVars == <<pollPc, pollLoc>>

\* -------------------------------------------------------------------------
\* Queue items and gateway ids
\* -------------------------------------------------------------------------

NoMessage ==
    [message |-> NullMessage, parentMessageId |-> <<>>, prId |-> 0,
     repository |-> <<>>, retries |-> 0, att |-> 0]

NoPollLocals ==
    [storedPRs |-> <<>>, activePRIds |-> {}, repo |-> 1, sweep |-> <<>>,
     content |-> EmptyStore]

\* `message` is a reference to a QueuedMessage object: ref is the object's
\* present index in messageQueue (0 once it has been shifted out) and message
\* holds the fields read through it.
NoLocals == [ref |-> 0, message |-> NoMessage, messageId |-> <<>>, threadId |-> <<>>,
             content |-> EmptyStore]

\* The history variable ev names the last step only where its outcome is not
\* visible in the state: a drain callback that returned at once, and how a
\* delivery attempt ended (for a failed attempt, with the retry counter the
\* item had), whether a step of the startup pass falls in working hours, and
\* what became of a status query of the sweep.
\* Every other step records "step".
Event(op, outcome) == [op |-> op, outcome |-> outcome, retries |-> 0]

\* Variant of queueMessage that adds the item at the front (unshift).
queueMessage_Unshift(q, message, parentMessageId, prId, repository) ==
    <<[message |-> message,
       parentMessageId |-> parentMessageId, prId |-> prId,
       repository |-> repository, retries |-> 0, att |-> 0]>> \o q

\* PachkaService.queueMessage: push with retries = 0.
queueMessage(q, message, parentMessageId, prId, repository) ==
    Append(q, [message |-> message,
               parentMessageId |-> parentMessageId, prId |-> prId,
               repository |-> repository, retries |-> 0, att |-> 0])

\* Array.prototype.shift
Shift(q) == IF q = <<>> THEN q ELSE Tail(q)

\* The thread ids some part of the state still refers to.
UsedThreadIds ==
    {store[id].messageId : id \in PrIds}
    \cup {file.doc[id].messageId : id \in PrIds}
    \cup {messageQueue[k].parentMessageId : k \in DOMAIN messageQueue}
    \cup UNION {{drainLoc[i].threadId, drainLoc[i].message.parentMessageId,
                 drainLoc[i].content[id].messageId} : i \in DrainInvs, id \in PrIds}
    \cup {pollLoc[p].content[id].messageId : p \in DOMAIN pollLoc, id \in PrIds}

\* The gateway numbers a new root message 2k-1 and its thread 2k.
FreshThreadNo ==
    CHOOSE k \in 1..(Cardinality(UsedThreadIds) + 1) :
        ToStr(2 * k) \notin UsedThreadIds
        /\ \A m \in 1..(k - 1) : ToStr(2 * m) \in UsedThreadIds

\* The pull request a queued item is about (history only).
ItemPr(item) == <<item.repository[2], item.prId>>

\* -------------------------------------------------------------------------
\* PachkaService.sendPullRequestNotification
\* -------------------------------------------------------------------------

sendPullRequestNotification(q, st, pr) ==
    LET repository == pr.full_name
        existingMessageId == getMessageId(st, pr.id)
    IN  IF existingMessageId # <<>>
        THEN LET updateMessage == formatPullRequestUpdateMessage(pr)
             IN  IF updateMessage # NullMessage
                 THEN queueMessage(q, updateMessage, existingMessageId, pr.id,
                                   repository)
                 ELSE q
        ELSE queueMessage(q, formatPullRequestMessage(pr), Undefined, pr.id,
                          repository)

\* The open pull requests of a repository, as getOpenPullRequests lists them.
RECURSIVE SnapshotsOf(_, _)
SnapshotsOf(repo, ids) ==
    IF ids = {} THEN <<>>
    ELSE LET id == CHOOSE x \in ids : \A y \in ids : x <= y
         IN  <<Snapshot(repo, id, bb[<<repo, id>>].rv)>>
             \o SnapshotsOf(repo, ids \ {id})

OpenSnapshots(repo) ==
    SnapshotsOf(repo, {id \in PrIds : <<repo, id>> \in PullRequests
                                      /\ bb[<<repo, id>>].state = "OPEN"})

\* for (const pr of openPRs) await sendPullRequestNotification(pr)
RECURSIVE NotifyAll(_, _, _)
NotifyAll(q, st, prs) ==
    IF prs = <<>> THEN q
    ELSE NotifyAll(sendPullRequestNotification(q, st, Head(prs)), st, Tail(prs))

\* -------------------------------------------------------------------------
\* Initial state: the services are constructed, nothing has run yet
\* -------------------------------------------------------------------------

\* A record left in message-store.json by an earlier deployment that keyed
\* repositories by their slug.
LegacyDoc ==
    [id \in PrIds |->
        IF id = 1 THEN [messageId |-> ToStr(2), repository |-> Slug("r1")]
        ELSE NoRecord]

\* What message-store.json may hold when the process starts.
InitialFiles ==
    {[exists |-> FALSE, doc |-> EmptyStore],
     [exists |-> TRUE, doc |-> LegacyDoc]}

Init ==
    /\ phase = "boot"
    /\ bb = [pr \in PullRequests |-> [state |-> "NONE", rv |-> RvNone]]
    /\ file \in InitialFiles
    /\ store = EmptyStore
    /\ messageQueue = <<>>
    /\ isProcessing = FALSE
    /\ drainPc = [i \in DrainInvs |-> "idle"]
    /\ drainLoc = [i \in DrainInvs |-> NoLocals]
    /\ initPc = "validate"
    /\ initRepo = 1
    /\ pollPc = [p \in PollInvs |-> "idle"]
    /\ pollLoc = [p \in PollInvs |-> NoPollLocals]
    /\ rootsPosted = [pr \in PullRequests |-> 0]
    /\ ev = Event("step", "")

\* BitbucketService.isWorkingHours at the instant now.
isWorkingHours(now) ==
    /\ now.day \in workDays
    /\ now.hour >= StartHour
    /\ now.hour < EndHour

\* -------------------------------------------------------------------------
\* The Bitbucket side
\* -------------------------------------------------------------------------

OpenPullRequest(pr) ==
    /\ bb[pr].state = "NONE"
    /\ \E rv \in ReviewStates :
           bb' = [bb EXCEPT ![pr] = [state |-> "OPEN", rv |-> rv]]
    /\ ev' = Event("step", "")
    /\ UNCHANGED <<phase, file, store, messageQueue, drainVars, initVars,
                   pollVars, rootsPosted>>

ChangeReview(pr) ==
    /\ bb[pr].state = "OPEN"
    /\ \E rv \in ReviewStates \ {bb[pr].rv} :
           bb' = [bb EXCEPT ![pr].rv = rv]
    /\ ev' = Event("step", "")
    /\ UNCHANGED <<phase, file, store, messageQueue, drainVars, initVars,
                   pollVars, rootsPosted>>

MergePullRequest(pr) ==
    /\ bb[pr].state = "OPEN"
    /\ bb' = [bb EXCEPT ![pr] = [state |-> "MERGED", rv |-> RvNone]]
    /\ rootsPosted' = [rootsPosted EXCEPT ![pr] = 0]
    /\ ev' = Event("step", "")
    /\ UNCHANGED <<phase, file, store, messageQueue, drainVars, initVars,
                   pollVars>>

\* -------------------------------------------------------------------------
\* Start-up: MessageStoreService.onModuleInit, then
\* BitbucketService.onModuleInit; the cron callbacks are mounted only after
\* both have returned.
\* -------------------------------------------------------------------------

\* initializeStore: load the document, or create it when it does not exist;
\* any other failure is rethrown and the process does not start.
InitializeStore ==
    /\ phase = "boot"
    /\ \E o \in {"ok", "error"} :
        /\ IF o = "error"
           THEN /\ phase' = "failed"
                /\ UNCHANGED <<file, store>>
           ELSE IF file.exists
                THEN /\ store' = file.doc
                     /\ phase' = "init"
                     /\ UNCHANGED file
                ELSE /\ file' = [exists |-> TRUE, doc |-> store]
                     /\ phase' = "init"
                     /\ UNCHANGED store
        /\ ev' = Event("step", "")
    /\ UNCHANGED <<bb, messageQueue, drainVars, initVars, pollVars, rootsPosted>>

\* onModuleInit up to the start-up message: validateCredentials returns.
InitValidate ==
    /\ phase = "init" /\ initPc = "validate"
    /\ \E o \in {"ok", "error"} :
        /\ IF o = "ok"
           THEN /\ messageQueue' =
                      queueMessage(messageQueue, StartupMessage, Undefined, 0, <<>>)
                /\ initPc' = "list"
                /\ UNCHANGED phase
           ELSE /\ messageQueue' =
                      queueMessage(messageQueue, ErrorMessage, Undefined, 0, <<>>)
                /\ phase' = "failed"
                /\ UNCHANGED initPc
        /\ ev' = Event("step", "")
    /\ UNCHANGED <<bb, file, store, drainVars, initRepo, pollVars, rootsPosted>>

\* processAllRepositories: getOpenPullRequests returns for one repository and
\* every pull request listed is notified, with no reviewer-state gate and no
\* look at the clock (ev records whether the instant is in working hours).
\* A failed request gives an empty list; a response without `values` makes
\* openPRs.length throw, which the catch inside the loop logs.
InitListReturns ==
    /\ phase = "init" /\ initPc = "list"
    /\ \E o \in {"ok", "error", "malformed"}, now \in Clock :
        LET prs == IF o = "ok" THEN OpenSnapshots(Repositories[initRepo]) ELSE <<>>
            q == NotifyAll(messageQueue, store, prs)
        IN  /\ Len(q) <= MaxQueue
            /\ messageQueue' = q
            /\ ev' = Event("startupPass",
                           IF isWorkingHours(now) THEN "workHours" ELSE "offHours")
    /\ IF initRepo < Len(Repositories)
       THEN /\ initRepo' = initRepo + 1
            /\ UNCHANGED <<phase, initPc>>
       ELSE /\ phase' = "running"
            /\ initPc' = "done"
            /\ UNCHANGED initRepo
    /\ UNCHANGED <<bb, file, store, drainVars, pollVars, rootsPosted>>

\* -------------------------------------------------------------------------
\* PachkaService.processMessageQueue (@Cron EVERY_5_SECONDS)
\* -------------------------------------------------------------------------

\* The guard of line 62, negated: the callback goes on to deliver.
CanStartDrain_NoLock == Len(messageQueue) # 0

CanStartDrain == ~isProcessing /\ Len(messageQueue) # 0

\* The index the callback takes its message from: this.messageQueue[0].
HeadIndex_Last == Len(messageQueue)

HeadIndex == 1

\* message.retries, read through the object reference.
RetriesOf(q, ref, message) ==
    IF ref \in DOMAIN q THEN q[ref].retries ELSE message.retries

\* message.retries++ , through the object reference.
IncrementRetries(q, ref) ==
    [k \in DOMAIN q |-> IF k = ref THEN [q[k] EXCEPT !.retries = @ + 1] ELSE q[k]]

\* Variants of the catch block: one retry more, one retry fewer, and a retry
\* for every kind of failure.
OnDeliveryError_OneMore(q, ref, message, status) ==
    IF status = 429
    THEN IF RetriesOf(q, ref, message) <= MAX_RETRIES
         THEN IncrementRetries(q, ref)
         ELSE Shift(q)
    ELSE Shift(q)

OnDeliveryError_OneFewer(q, ref, message, status) ==
    IF status = 429
    THEN IF RetriesOf(q, ref, message) < MAX_RETRIES - 1
         THEN IncrementRetries(q, ref)
         ELSE Shift(q)
    ELSE Shift(q)

OnDeliveryError_RetryAll(q, ref, message, status) ==
    IF RetriesOf(q, ref, message) < MAX_RETRIES
    THEN IncrementRetries(q, ref)
    ELSE Shift(q)

\* The catch block: status is error.response?.status, 0 when there is none.
OnDeliveryError(q, ref, message, status) ==
    IF status = 429
    THEN IF RetriesOf(q, ref, message) < MAX_RETRIES
         THEN IncrementRetries(q, ref)
         ELSE Shift(q)
    ELSE Shift(q)

\* error.response?.status of a failed gateway call.
StatusOf(outcome) ==
    CASE outcome = "429" -> 429
      [] outcome = "error" -> 500
      [] OTHER -> 0

GatewayFailures == {"429", "error", "noResponse"}

\* The callback fires (a new callback is named by the least index not in
\* use).  It returns at once when a delivery is in flight or the queue is
\* empty; otherwise it takes the head item and issues the first call.
ProcessMessageQueue(i) ==
    /\ phase = "running" /\ drainPc[i] = "idle"
    /\ \A j \in DrainInvs : j < i => drainPc[j] # "idle"
    /\ IF ~CanStartDrain
       THEN /\ ev' = Event("skip", "")
            /\ UNCHANGED <<messageQueue, drainVars>>
       ELSE LET ref == HeadIndex
                message == messageQueue[ref]
            IN  /\ isProcessing' = TRUE
                /\ messageQueue' = [messageQueue EXCEPT ![ref].att = @ + 1]
                /\ drainLoc' = [drainLoc EXCEPT ![i] =
                                   [NoLocals EXCEPT !.ref = ref,
                                                    !.message = message]]
                /\ drainPc' = [drainPc EXCEPT ![i] =
                                  IF message.parentMessageId # <<>>
                                  THEN "postReply" ELSE "postRoot"]
                /\ ev' = Event("step", "")
    /\ UNCHANGED <<phase, bb, file, store, initVars, pollVars, rootsPosted>>

\* The locals of the callbacks once callback i has returned; when the queue
\* was shifted, every other reference follows its object.
LocalsAfter(i, shifted) ==
    [j \in DrainInvs |->
        IF j = i THEN NoLocals
        ELSE IF shifted /\ drainLoc[j].ref > 0
        THEN [drainLoc[j] EXCEPT !.ref = @ - 1]
        ELSE drainLoc[j]]

\* Variant of the success path without the finally block.
Delivered_KeepsLock(i) ==
    /\ messageQueue' = Shift(messageQueue)
    /\ UNCHANGED isProcessing
    /\ drainPc' = [drainPc EXCEPT ![i] = "idle"]
    /\ drainLoc' = LocalsAfter(i, messageQueue # <<>>)
    /\ ev' = Event("delivered", "")

\* Leaving the try block normally: shift, then finally.
Delivered(i) ==
    /\ messageQueue' = Shift(messageQueue)
    /\ isProcessing' = FALSE
    /\ drainPc' = [drainPc EXCEPT ![i] = "idle"]
    /\ drainLoc' = LocalsAfter(i, messageQueue # <<>>)
    /\ ev' = Event("delivered", "")

\* Variant of the error path without the finally block.
Failed_NoFinally(i, outcome) ==
    /\ messageQueue' =
           OnDeliveryError(messageQueue, drainLoc[i].ref, drainLoc[i].message,
                           StatusOf(outcome))
    /\ UNCHANGED isProcessing
    /\ drainPc' = [drainPc EXCEPT ![i] = "idle"]
    /\ drainLoc' = LocalsAfter(i, Len(messageQueue') < Len(messageQueue))
    /\ ev' = [Event("failed", outcome) EXCEPT
                 !.retries = RetriesOf(messageQueue, drainLoc[i].ref,
                                       drainLoc[i].message)]

\* Leaving it through the catch block, then finally.
Failed(i, outcome) ==
    /\ messageQueue' =
           OnDeliveryError(messageQueue, drainLoc[i].ref, drainLoc[i].message,
                           StatusOf(outcome))
    /\ isProcessing' = FALSE
    /\ drainPc' = [drainPc EXCEPT ![i] = "idle"]
    /\ drainLoc' = LocalsAfter(i, Len(messageQueue') < Len(messageQueue))
    /\ ev' = [Event("failed", outcome) EXCEPT
                 !.retries = RetriesOf(messageQueue, drainLoc[i].ref,
                                       drainLoc[i].message)]

\* The threaded POST /messages returns: any response is a success.
PostReplyReturns(i) ==
    /\ drainPc[i] = "postReply"
    /\ \E o \in {"ok"} \cup GatewayFailures :
           IF o = "ok" THEN Delivered(i) ELSE Failed(i, o)
    /\ UNCHANGED <<phase, bb, file, store, initVars, pollVars, rootsPosted>>

\* History: one more root message of this item's pull request is in the chat.
CountRoot(message) ==
    IF message.prId # 0 /\ message.repository # <<>>
       /\ bb[ItemPr(message)].state = "OPEN"
    THEN [rootsPosted EXCEPT ![ItemPr(message)] = IF @ < 2 THEN @ + 1 ELSE @]
    ELSE rootsPosted

\* The root POST /messages returns.  Without an id in the response nothing
\* more is done and the item is shifted.
PostRootReturns(i) ==
    /\ drainPc[i] = "postRoot"
    /\ \E o \in {"ok", "noId"} \cup GatewayFailures :
           CASE o = "ok" ->
                    /\ drainLoc' = [drainLoc EXCEPT ![i].messageId =
                                       ToStr(2 * FreshThreadNo - 1)]
                    /\ drainPc' = [drainPc EXCEPT ![i] = "createThread"]
                    /\ rootsPosted' = CountRoot(drainLoc[i].message)
                    /\ ev' = Event("step", "")
                    /\ UNCHANGED <<messageQueue, isProcessing>>
             [] o = "noId" ->
                    /\ rootsPosted' = CountRoot(drainLoc[i].message)
                    /\ Delivered(i)
             [] OTHER ->
                    /\ Failed(i, o)
                    /\ UNCHANGED rootsPosted
    /\ UNCHANGED <<phase, bb, file, store, initVars, pollVars>>

\* Variant of the step below that passes the root message id to
\* saveMessageId in place of the thread id.
CreateThreadReturns_RootId(i) ==
    /\ drainPc[i] = "createThread"
    /\ \E o \in {"ok", "noId"} \cup GatewayFailures :
        LET message == drainLoc[i].message
            threadId == IF o = "ok" THEN drainLoc[i].messageId ELSE Undefined
        IN  IF o \in GatewayFailures
            THEN Failed(i, o) /\ UNCHANGED store
            ELSE IF message.prId # 0 /\ message.repository # <<>>
            THEN IF InvalidMessageData(message.prId, threadId, message.repository)
                 THEN Failed(i, "invalid") /\ UNCHANGED store
                 ELSE /\ store' = [store EXCEPT ![message.prId] =
                                      [messageId |-> threadId,
                                       repository |-> message.repository]]
                      /\ drainLoc' = [drainLoc EXCEPT ![i].threadId = threadId,
                                                      ![i].content = store']
                      /\ drainPc' = [drainPc EXCEPT ![i] = "saveStore"]
                      /\ ev' = Event("step", "")
                      /\ UNCHANGED <<messageQueue, isProcessing>>
            ELSE Delivered(i) /\ UNCHANGED store
    /\ UNCHANGED <<phase, bb, file, initVars, pollVars, rootsPosted>>

\* POST /messages/:id/thread returns.  With prId and repository on the item,
\* saveMessageId checks its arguments, updates the map and starts saveStore.
CreateThreadReturns(i) ==
    /\ drainPc[i] = "createThread"
    /\ \E o \in {"ok", "noId"} \cup GatewayFailures :
        LET message == drainLoc[i].message
            threadId == IF o = "ok" THEN ToStr(ToNum(drainLoc[i].messageId) + 1)
                        ELSE Undefined
        IN  IF o \in GatewayFailures
            THEN Failed(i, o) /\ UNCHANGED store
            ELSE IF message.prId # 0 /\ message.repository # <<>>
            THEN IF InvalidMessageData(message.prId, threadId, message.repository)
                 THEN Failed(i, "invalid") /\ UNCHANGED store
                 ELSE /\ store' = [store EXCEPT ![message.prId] =
                                      [messageId |-> threadId,
                                       repository |-> message.repository]]
                      /\ drainLoc' = [drainLoc EXCEPT ![i].threadId = threadId,
                                                      ![i].content = store']
                      /\ drainPc' = [drainPc EXCEPT ![i] = "saveStore"]
                      /\ ev' = Event("step", "")
                      /\ UNCHANGED <<messageQueue, isProcessing>>
            ELSE Delivered(i) /\ UNCHANGED store
    /\ UNCHANGED <<phase, bb, file, initVars, pollVars, rootsPosted>>

\* fs.writeFile of saveStore inside saveMessageId returns: the file holds the
\* content serialised when saveStore began, and saveStore goes on to read it.
SaveStoreWrites(i) ==
    /\ drainPc[i] = "saveStore"
    /\ \E o \in {"ok", "writeError"} :
        IF o = "ok"
        THEN /\ file' = [exists |-> TRUE, doc |-> drainLoc[i].content]
             /\ drainPc' = [drainPc EXCEPT ![i] = "readStore"]
             /\ ev' = Event("step", "")
             /\ UNCHANGED <<messageQueue, isProcessing, drainLoc>>
        ELSE Failed(i, "put") /\ UNCHANGED file
    /\ UNCHANGED <<phase, bb, store, initVars, pollVars, rootsPosted>>

\* fs.readFile of saveStore returns: what was read is parsed and logged, not
\* compared.  saveMessageId then reads the id back from the map in memory
\* and compares it with its argument.
SaveStoreReturns(i) ==
    /\ drainPc[i] = "readStore"
    /\ \E o \in {"ok", "readError"} :
        IF o = "ok"
        THEN IF getMessageId(store, drainLoc[i].message.prId)
                    # drainLoc[i].threadId
             THEN Failed(i, "put")
             ELSE Delivered(i)
        ELSE Failed(i, "put")
    /\ UNCHANGED <<phase, bb, file, store, initVars, pollVars, rootsPosted>>

\* -------------------------------------------------------------------------
\* BitbucketService.checkPullRequests (@Cron EVERY_10_MINUTES)
\* -------------------------------------------------------------------------

\* Variant of the loop body without the pending-reviewer test.
NotifyIfPending_Ungated(q, st, pr) == sendPullRequestNotification(q, st, pr)

\* The loop body of lines 242-252 for one snapshot: only a pull request with
\* a pending reviewer is handed to sendPullRequestNotification.
NotifyIfPending(q, st, pr) ==
    IF hasPendingReviewers(pr) THEN sendPullRequestNotification(q, st, pr) ELSE q

RECURSIVE NotifyPending(_, _, _)
NotifyPending(q, st, prs) ==
    IF prs = <<>> THEN q
    ELSE NotifyPending(NotifyIfPending(q, st, Head(prs)), st, Tail(prs))

\* storedPRs.filter((pr) => pr.repository === repository)
RECURSIVE RepositoryStoredPRs(_, _)
RepositoryStoredPRs(storedPRs, repository) ==
    IF storedPRs = <<>> THEN <<>>
    ELSE IF Head(storedPRs).repository = repository
    THEN <<Head(storedPRs)>> \o RepositoryStoredPRs(Tail(storedPRs), repository)
    ELSE RepositoryStoredPRs(Tail(storedPRs), repository)

\* The stored pull requests the sweep still has to ask Bitbucket about: those
\* in activePRIds are passed over.
RECURSIVE NextSweep(_, _)
NextSweep(rest, activePRIds) ==
    IF rest = <<>> THEN <<>>
    ELSE IF Head(rest).prId \in activePRIds THEN NextSweep(Tail(rest), activePRIds)
    ELSE rest

\* Where the callback goes once `rest` is what is left of the sweep of the
\* current repository: the next status query, the next repository, or the end.
ContinueSweep(loc, rest) ==
    LET s == NextSweep(rest, loc.activePRIds)
    IN  IF s # <<>>
        THEN [pc |-> "status", loc |-> [loc EXCEPT !.sweep = s]]
        ELSE IF loc.repo < Len(Repositories)
        THEN [pc |-> "list", loc |-> [loc EXCEPT !.sweep = <<>>, !.repo = @ + 1]]
        ELSE [pc |-> "idle", loc |-> NoPollLocals]

\* getPRStatus for a pull request of a repository: its state, or 'CLOSED'
\* when Bitbucket answers 404.
getPRStatus(repo, prId) ==
    LET pr == <<repo, ToNum(prId)>>
    IN  IF pr \in PullRequests /\ bb[pr].state # "NONE" THEN bb[pr].state
        ELSE "CLOSED"

\* The callback fires: outside working hours it returns, otherwise it reads
\* the stored pull requests and asks for the first repository's open list.
CheckPullRequests(p) ==
    /\ phase = "running" /\ pollPc[p] = "idle"
    /\ \E now \in Clock :
        IF ~isWorkingHours(now)
        THEN /\ ev' = Event("step", "")
             /\ UNCHANGED pollVars
        ELSE /\ pollLoc' = [pollLoc EXCEPT ![p] =
                               [NoPollLocals EXCEPT !.storedPRs = getAllPRs(store)]]
             /\ pollPc' = [pollPc EXCEPT ![p] = "list"]
             /\ ev' = Event("step", "")
    /\ UNCHANGED <<phase, bb, file, store, messageQueue, drainVars, initVars,
                   rootsPosted>>

\* getOpenPullRequests returns for the current repository; the snapshots are
\* notified and the sweep of this repository begins.  A response without
\* `values` makes the for-of throw: the outer catch enqueues an error message
\* and the cycle ends.
PollListReturns(p) ==
    /\ pollPc[p] = "list"
    /\ \E o \in {"ok", "error", "malformed"} :
        LET loc == pollLoc[p]
            repo == Repositories[loc.repo]
            prs == IF o = "ok" THEN OpenSnapshots(repo) ELSE <<>>
            active == loc.activePRIds \cup {ToStr(prs[k].id) : k \in DOMAIN prs}
            q == IF o = "malformed"
                 THEN queueMessage(messageQueue, ErrorMessage, Undefined, 0, <<>>)
                 ELSE NotifyPending(messageQueue, store, prs)
            next == IF o = "malformed"
                    THEN [pc |-> "idle", loc |-> NoPollLocals]
                    ELSE ContinueSweep([loc EXCEPT !.activePRIds = active],
                                       RepositoryStoredPRs(loc.storedPRs, Slug(repo)))
        IN  /\ Len(q) <= MaxQueue
            /\ messageQueue' = q
            /\ pollPc' = [pollPc EXCEPT ![p] = next.pc]
            /\ pollLoc' = [pollLoc EXCEPT ![p] = next.loc]
            /\ ev' = Event("step", "")
    /\ UNCHANGED <<phase, bb, file, store, drainVars, initVars, rootsPosted>>

\* getPRStatus returns for the stored pull request at the head of the sweep.
\* Unless it is OPEN, removeFromStore -> removePR runs: it returns at once
\* when it leaves the map as it is, and otherwise goes on to saveStore.
PollStatusReturns(p) ==
    /\ pollPc[p] = "status"
    /\ \E o \in {"ok", "error"} :
        LET loc == pollLoc[p]
            repo == Repositories[loc.repo]
            storedPR == Head(loc.sweep)
            prId == ToNum(storedPR.prId)
            prStatus == getPRStatus(repo, storedPR.prId)
            next == ContinueSweep(loc, Tail(loc.sweep))
            removed == removePR(store, prId, Slug(repo))
        IN  IF o = "ok" /\ prStatus # "OPEN" /\ removed # store
            THEN /\ store' = removed
                 /\ pollLoc' = [pollLoc EXCEPT ![p].content = store']
                 /\ pollPc' = [pollPc EXCEPT ![p] = "remove"]
                 /\ ev' = Event("status", "deleted")
            ELSE /\ pollPc' = [pollPc EXCEPT ![p] = next.pc]
                 /\ pollLoc' = [pollLoc EXCEPT ![p] = next.loc]
                 /\ ev' = Event("status",
                                CASE o = "error" -> "error"
                                  [] prStatus = "OPEN" -> "open"
                                  [] store[prId] = NoRecord -> "notFound"
                                  [] OTHER -> "mismatch")
                 /\ UNCHANGED store
    /\ UNCHANGED <<phase, bb, file, messageQueue, drainVars, initVars, rootsPosted>>

\* fs.writeFile of saveStore inside removePR returns.  A failure is thrown
\* through removePR and swallowed by removeFromStore: the sweep goes on.
PollRemoveWrites(p) ==
    /\ pollPc[p] = "remove"
    /\ \E o \in {"ok", "writeError"} :
        LET loc == pollLoc[p]
            next == ContinueSweep(loc, Tail(loc.sweep))
        IN  IF o = "ok"
            THEN /\ file' = [exists |-> TRUE, doc |-> loc.content]
                 /\ pollPc' = [pollPc EXCEPT ![p] = "removeRead"]
                 /\ UNCHANGED pollLoc
            ELSE /\ pollPc' = [pollPc EXCEPT ![p] = next.pc]
                 /\ pollLoc' = [pollLoc EXCEPT ![p] = next.loc]
                 /\ UNCHANGED file
    /\ ev' = Event("step", "")
    /\ UNCHANGED <<phase, bb, store, messageQueue, drainVars, initVars, rootsPosted>>

\* fs.readFile of that saveStore returns; whether it failed, and whether
\* removePR's own check of the map then throws, removeFromStore swallows it
\* and the sweep goes on.
PollRemoveReturns(p) ==
    /\ pollPc[p] = "removeRead"
    /\ \E o \in {"ok", "readError"} :
        LET loc == pollLoc[p]
            next == ContinueSweep(loc, Tail(loc.sweep))
        IN  /\ pollPc' = [pollPc EXCEPT ![p] = next.pc]
            /\ pollLoc' = [pollLoc EXCEPT ![p] = next.loc]
    /\ ev' = Event("step", "")
    /\ UNCHANGED <<phase, bb, file, store, messageQueue, drainVars, initVars,
                   rootsPosted>>

\* -------------------------------------------------------------------------
\* The system
\* -------------------------------------------------------------------------

Next ==
    \/ \E pr \in PullRequests : OpenPullRequest(pr)
    \/ \E pr \in PullRequests : ChangeReview(pr)
    \/ \E pr \in PullRequests : MergePullRequest(pr)
    \/ InitializeStore
    \/ InitValidate
    \/ InitListReturns
    \/ \E i \in DrainInvs : ProcessMessageQueue(i)
    \/ \E i \in DrainInvs : PostReplyReturns(i)
    \/ \E i \in DrainInvs : PostRootReturns(i)
    \/ \E i \in DrainInvs : CreateThreadReturns(i)
    \/ \E i \in DrainInvs : SaveStoreWrites(i)
    \/ \E i \in DrainInvs : SaveStoreReturns(i)
    \/ \E p \in PollInvs : CheckPullRequests(p)
    \/ \E p \in PollInvs : PollListReturns(p)
    \/ \E p \in PollInvs : PollStatusReturns(p)
    \/ \E p \in PollInvs : PollRemoveWrites(p)
    \/ \E p \in PollInvs : PollRemoveReturns(p)

Spec == Init /\ [][Next]_vars

\* The scheduler keeps firing processMessageQueue every five seconds, and
\* every gateway call and file operation a callback awaits is eventually
\* settled, with whatever outcome.
DrainFairness ==
    /\ WF_vars(ProcessMessageQueue(1))
    /\ \A i \in DrainInvs :
           /\ WF_vars(PostReplyReturns(i))
           /\ WF_vars(PostRootReturns(i))
           /\ WF_vars(CreateThreadReturns(i))
           /\ WF_vars(SaveStoreWrites(i))
           /\ WF_vars(SaveStoreReturns(i))

\* -------------------------------------------------------------------------
\* Poll cycles over an unchanging snapshot and thread store
\* -------------------------------------------------------------------------

\* Every reviewer state of a pull request with up to two reviewers: each
\* reviewer has no participant entry, or one that approved, requested changes
\* or did neither.
ParticipantStates == {"absent", "approved", "changes_requested", "pending"}

ParticipantOf(user, s) ==
    IF s = "absent" THEN <<>>
    ELSE <<[user |-> user, approved |-> (s = "approved"), state |-> s]>>

AllReviewStates ==
    {RvNone}
    \cup {[reviewers |-> <<"A">>, participants |-> ParticipantOf("A", a)] :
              a \in ParticipantStates}
    \cup {[reviewers |-> <<"A", "B">>,
           participants |-> ParticipantOf("A", a) \o ParticipantOf("B", b)] :
              a \in ParticipantStates, b \in ParticipantStates}

\* The thread store after the root message of pull request 1 was delivered.
DeliveredStore ==
    [id \in PrIds |->
        IF id = 1
        THEN [messageId |-> ToStr(2), repository |-> FullName(Workspace, "r1")]
        ELSE NoRecord]

\* The service is running with nothing queued; the pull request is open in
\* some reviewer state and has a ThreadRecord or none.
ReconcileInit ==
    /\ phase = "running"
    /\ bb \in [PullRequests -> {[state |-> "OPEN", rv |-> rv] :
                                    rv \in AllReviewStates}]
    /\ store \in {EmptyStore, DeliveredStore}
    /\ file = [exists |-> TRUE, doc |-> store]
    /\ messageQueue = <<>>
    /\ isProcessing = FALSE
    /\ drainPc = [i \in DrainInvs |-> "idle"]
    /\ drainLoc = [i \in DrainInvs |-> NoLocals]
    /\ initPc = "done"
    /\ initRepo = Len(Repositories)
    /\ pollPc = [p \in PollInvs |-> "idle"]
    /\ pollLoc = [p \in PollInvs |-> NoPollLocals]
    /\ rootsPosted = [pr \in PullRequests |->
                         IF store = EmptyStore THEN 0 ELSE 1]
    /\ ev = Event("step", "")

\* Only the poll callback runs: Bitbucket does not change and nothing is
\* delivered between the cycles.
ReconcileNext ==
    \/ \E p \in PollInvs : CheckPullRequests(p)
    \/ \E p \in PollInvs : PollListReturns(p)

SpecReconcile == ReconcileInit /\ [][ReconcileNext]_vars

\* -------------------------------------------------------------------------
\* The thread store under a delivery and a poll cycle
\* -------------------------------------------------------------------------

\* An entry an earlier run left under the repository slug.
StaleRecord == [messageId |-> ToStr(4), repository |-> Slug("r1")]

\* What the map may hold when the service is running: for pull request 1
\* nothing, an entry under the slug or the entry of a root delivery; for the
\* closed pull request 2 nothing or a stale entry.
StartStores ==
    {[id \in PrIds |-> IF id = 1 THEN a ELSE b] :
        a \in {NoRecord, LegacyDoc[1], DeliveredStore[1]},
        b \in {NoRecord, StaleRecord}}

\* The root item of pull request 1, as sendPullRequestNotification queues it.
RootItem ==
    Head(queueMessage(<<>>, formatPullRequestMessage(Snapshot("r1", 1, RvApproved)),
                      Undefined, 1, FullName(Workspace, "r1")))

\* Pull request 1 is open with every reviewer approved (the poll cycles pass
\* it over) or merged.
QuietBitbucket ==
    [PullRequests -> {[state |-> "OPEN", rv |-> RvApproved],
                      [state |-> "MERGED", rv |-> RvNone]}]

\* The service is running and idle, and the root item of pull request 1 may
\* be waiting in the queue.
StoreInit ==
    /\ phase = "running"
    /\ bb \in QuietBitbucket
    /\ store \in StartStores
    /\ file = [exists |-> TRUE, doc |-> store]
    /\ messageQueue \in {<<>>, <<RootItem>>}
    /\ isProcessing = FALSE
    /\ drainPc = [i \in DrainInvs |-> "idle"]
    /\ drainLoc = [i \in DrainInvs |-> NoLocals]
    /\ initPc = "done"
    /\ initRepo = Len(Repositories)
    /\ pollPc = [p \in PollInvs |-> "idle"]
    /\ pollLoc = [p \in PollInvs |-> NoPollLocals]
    /\ rootsPosted = [pr \in PullRequests |-> 0]
    /\ ev = Event("step", "")

\* The drain and poll callbacks; Bitbucket does not change.
StoreNext ==
    \/ \E i \in DrainInvs : ProcessMessageQueue(i)
    \/ \E i \in DrainInvs : PostRootReturns(i)
    \/ \E i \in DrainInvs : CreateThreadReturns(i)
    \/ \E i \in DrainInvs : SaveStoreWrites(i)
    \/ \E i \in DrainInvs : SaveStoreReturns(i)
    \/ \E p \in PollInvs : CheckPullRequests(p)
    \/ \E p \in PollInvs : PollListReturns(p)
    \/ \E p \in PollInvs : PollStatusReturns(p)
    \/ \E p \in PollInvs : PollRemoveWrites(p)
    \/ \E p \in PollInvs : PollRemoveReturns(p)

SpecStore == StoreInit /\ [][StoreNext]_vars

\* -------------------------------------------------------------------------
\* The queue under the cron scheduler: the service is running, pull request
\* 1 is open with a pending reviewer, so that every poll cycle enqueues for
\* it (a root item or a reminder) while the drain callbacks deliver.  The
\* map is empty, or holds the record of pull request 1 and a stale one.
\* -------------------------------------------------------------------------

StartupItem == Head(queueMessage(<<>>, StartupMessage, Undefined, 0, <<>>))

DrainInit ==
    /\ phase = "running"
    /\ bb = [pr \in PullRequests |-> [state |-> "OPEN", rv |-> RvPending]]
    /\ store \in {EmptyStore, [DeliveredStore EXCEPT ![2] = StaleRecord]}
    /\ file = [exists |-> TRUE, doc |-> store]
    /\ messageQueue \in {<<>>, <<StartupItem>>}
    /\ isProcessing = FALSE
    /\ drainPc = [i \in DrainInvs |-> "idle"]
    /\ drainLoc = [i \in DrainInvs |-> NoLocals]
    /\ initPc = "done"
    /\ initRepo = Len(Repositories)
    /\ pollPc = [p \in PollInvs |-> "idle"]
    /\ pollLoc = [p \in PollInvs |-> NoPollLocals]
    /\ rootsPosted = [pr \in PullRequests |-> 0]
    /\ ev = Event("step", "")

DrainNext ==
    \/ \E i \in DrainInvs : ProcessMessageQueue(i)
    \/ \E i \in DrainInvs : PostReplyReturns(i)
    \/ \E i \in DrainInvs : PostRootReturns(i)
    \/ \E i \in DrainInvs : CreateThreadReturns(i)
    \/ \E i \in DrainInvs : SaveStoreWrites(i)
    \/ \E i \in DrainInvs : SaveStoreReturns(i)
    \/ \E p \in PollInvs : CheckPullRequests(p)
    \/ \E p \in PollInvs : PollListReturns(p)
    \/ \E p \in PollInvs : PollStatusReturns(p)
    \/ \E p \in PollInvs : PollRemoveWrites(p)
    \/ \E p \in PollInvs : PollRemoveReturns(p)

SpecDrain == DrainInit /\ [][DrainNext]_vars /\ DrainFairness

\* -------------------------------------------------------------------------
\* Overlapping poll cycles
\* -------------------------------------------------------------------------

\* checkPullRequests has no guard against a tick that fires while an earlier
\* call is still awaiting Bitbucket or the file system: two calls may be
\* under way.
OverlapPolls == {1, 2}

\* The locals of a call that read storedPRs from the map `was`, found the
\* stored pull request `id` of the first repository absent from the open
\* list, and is awaiting getPRStatus for it.
AwaitingStatus(was, id) ==
    [NoPollLocals EXCEPT
        !.storedPRs = getAllPRs(was),
        !.activePRIds = {ToStr(pr[2]) : pr \in {x \in PullRequests :
                                                  x[1] = "r1" /\ bb[x].state = "OPEN"}},
        !.sweep = RepositoryStoredPRs(getAllPRs([k \in PrIds |->
                      IF k = id THEN was[k] ELSE NoRecord]), Slug("r1"))]

\* The service is running with nothing queued.  The first call is idle, or
\* suspended on a status query it began when the map was `was`; the map may
\* since have been changed by a delivery or by another call.
PollsInit ==
    /\ phase = "running"
    /\ bb \in QuietBitbucket
    /\ store \in StartStores
    /\ file = [exists |-> TRUE, doc |-> store]
    /\ messageQueue = <<>>
    /\ isProcessing = FALSE
    /\ drainPc = [i \in DrainInvs |-> "idle"]
    /\ drainLoc = [i \in DrainInvs |-> NoLocals]
    /\ initPc = "done"
    /\ initRepo = Len(Repositories)
    /\ \/ /\ pollPc = [p \in OverlapPolls |-> "idle"]
          /\ pollLoc = [p \in OverlapPolls |-> NoPollLocals]
       \/ \E was \in StartStores, id \in PrIds :
             /\ was[id] # NoRecord /\ was[id].repository = Slug("r1")
             /\ id = 1 => bb[<<"r1", 1>>].state # "OPEN"
             /\ pollPc = [p \in OverlapPolls |->
                             IF p = 1 THEN "status" ELSE "idle"]
             /\ pollLoc = [p \in OverlapPolls |->
                              IF p = 1 THEN AwaitingStatus(was, id)
                              ELSE NoPollLocals]
    /\ rootsPosted = [pr \in PullRequests |-> 0]
    /\ ev = Event("step", "")

\* A cron tick starts call p; the calls under way take the lowest numbers.
PollTick(p) ==
    /\ \A j \in OverlapPolls : j < p => pollPc[j] # "idle"
    /\ CheckPullRequests(p)

\* Only the poll callbacks run.
PollsNext ==
    \/ \E p \in OverlapPolls : PollTick(p)
    \/ \E p \in OverlapPolls : PollListReturns(p)
    \/ \E p \in OverlapPolls : PollStatusReturns(p)
    \/ \E p \in OverlapPolls : PollRemoveWrites(p)
    \/ \E p \in OverlapPolls : PollRemoveReturns(p)

SpecPolls == PollsInit /\ [][PollsNext]_vars

\* -------------------------------------------------------------------------
\* The notification of one snapshot
\* -------------------------------------------------------------------------

\* The `state` values of the PullRequest interface.
SnapshotStates == {"OPEN", "MERGED", "DECLINED", "SUPERSEDED"}

\* A snapshot in any state and reviewer state is about to be handed to
\* sendPullRequestNotification; the map holds its ThreadRecord or none.
RenderInit ==
    /\ phase = "input"
    /\ bb \in [PullRequests -> {[state |-> st, rv |-> rv] :
                                    st \in SnapshotStates, rv \in AllReviewStates}]
    /\ store \in {EmptyStore, DeliveredStore}
    /\ file = [exists |-> TRUE, doc |-> store]
    /\ messageQueue = <<>>
    /\ isProcessing = FALSE
    /\ drainPc = [i \in DrainInvs |-> "idle"]
    /\ drainLoc = [i \in DrainInvs |-> NoLocals]
    /\ initPc = "done"
    /\ initRepo = Len(Repositories)
    /\ pollPc = [p \in PollInvs |-> "idle"]
    /\ pollLoc = [p \in PollInvs |-> NoPollLocals]
    /\ rootsPosted = [pr \in PullRequests |-> 0]
    /\ ev = Event("step", "")

\* sendPullRequestNotification(pr) for the snapshot.
SendPullRequestNotification(pr) ==
    /\ phase = "input"
    /\ phase' = "output"
    /\ messageQueue' =
           sendPullRequestNotification(
               messageQueue, store,
               [Snapshot(pr[1], pr[2], bb[pr].rv) EXCEPT !.state = bb[pr].state])
    /\ ev' = Event("step", "")
    /\ UNCHANGED <<bb, file, store, drainVars, initVars, pollVars, rootsPosted>>

RenderNext == \E pr \in PullRequests : SendPullRequestNotification(pr)

SpecRenderer == RenderInit /\ [][RenderNext]_vars

\* -------------------------------------------------------------------------
\* sendPullRequestNotification with two repositories whose pull requests
\* share a numeric id: Bitbucket numbers pull requests per repository.
\* -------------------------------------------------------------------------

TwinPullRequests == {<<"r1", 1>>, <<"r2", 1>>}

\* Both pull requests are open in some reviewer state; the map holds no
\* record, or the record written when the root message of ws/r1 #1 was
\* delivered.
TwinInit ==
    /\ phase = "input"
    /\ bb \in [TwinPullRequests -> {[state |-> "OPEN", rv |-> rv] :
                                        rv \in AllReviewStates}]
    /\ store \in {EmptyStore, DeliveredStore}
    /\ file = [exists |-> TRUE, doc |-> store]
    /\ messageQueue = <<>>
    /\ isProcessing = FALSE
    /\ drainPc = [i \in DrainInvs |-> "idle"]
    /\ drainLoc = [i \in DrainInvs |-> NoLocals]
    /\ initPc = "done"
    /\ initRepo = Len(Repositories)
    /\ pollPc = [p \in PollInvs |-> "idle"]
    /\ pollLoc = [p \in PollInvs |-> NoPollLocals]
    /\ rootsPosted = [pr \in PullRequests |-> 0]
    /\ ev = Event("step", "")

\* sendPullRequestNotification(pr) for the snapshot of one of the two; ev
\* records the repository of the snapshot.
NotifyTwin(pr) ==
    /\ phase = "input"
    /\ phase' = "output"
    /\ messageQueue' =
           sendPullRequestNotification(messageQueue, store,
                                       Snapshot(pr[1], pr[2], bb[pr].rv))
    /\ ev' = Event("notified", pr[1])
    /\ UNCHANGED <<bb, file, store, drainVars, initVars, pollVars, rootsPosted>>

TwinNext == \E pr \in TwinPullRequests : NotifyTwin(pr)

SpecTwins == TwinInit /\ [][TwinNext]_vars

\* -------------------------------------------------------------------------
\* Properties
\* -------------------------------------------------------------------------

InFlight == {i \in DrainInvs : drainPc[i] # "idle"}

\* A step that ends a delivery attempt with the given failure outcomes.
FailedWith(outcomes) ==
    /\ InFlight # {}
    /\ messageQueue # <<>>
    /\ ev'.op = "failed"
    /\ ev'.outcome \in outcomes

\* C1: at most one delivery attempt is in flight at any time, isProcessing is
\* set exactly while one is, an attempt starts only when none is in flight and
\* the queue is not empty, and a callback that fires otherwise returns without
\* a gateway call and without changing the queue, a retry counter or the
\* thread store.
C1_SingleFlight ==
    [][/\ Cardinality({i \in DrainInvs : drainPc'[i] # "idle"}) <= 1
       /\ isProcessing' = (\E i \in DrainInvs : drainPc'[i] # "idle")
       /\ (\E i \in DrainInvs : drainPc[i] = "idle" /\ drainPc'[i] # "idle")
              => (~isProcessing /\ messageQueue # <<>>)
       /\ ev'.op = "skip"
              => /\ isProcessing \/ messageQueue = <<>>
                 /\ UNCHANGED <<messageQueue, store, file, drainPc, drainLoc,
                                isProcessing, rootsPosted>>
      ]_vars

\* A callback returned at once while another one is awaiting the store write
\* of a root delivery.
C1_Witness ==
    /\ ev.op = "skip"
    /\ isProcessing
    /\ \E i \in DrainInvs : drainPc[i] = "saveStore"

\* C2: a delivery attempt that fails with HTTP 429 leaves the item at the head
\* with its counter one higher when the counter is below 3 and removes it when
\* the counter is 3; every queued item's counter is in 0..3.
C2_BoundedRetry ==
    [][/\ \A k \in DOMAIN messageQueue' : messageQueue'[k].retries \in 0..3
       /\ FailedWith({"429"})
              => IF messageQueue[1].retries < 3
                 THEN messageQueue' =
                          [messageQueue EXCEPT ![1].retries = @ + 1]
                 ELSE messageQueue' = Tail(messageQueue)
      ]_vars

\* An item whose counter was 3 has just been dropped on a further 429.
C2_Witness ==
    /\ ev.op = "failed" /\ ev.outcome = "429" /\ ev.retries = 3
    /\ \A k \in DOMAIN messageQueue : messageQueue[k].retries = 0

\* C3 as stated: the third consecutive 429 for an item drops it.
C3_DroppedAfterThird ==
    [][(FailedWith({"429"}) /\ messageQueue[1].att = 3)
           => messageQueue' = Tail(messageQueue)
      ]_vars

\* C3 amended: an item is attempted at most four times; a 429 on its first,
\* second or third attempt leaves it at the head, a 429 on the fourth removes
\* it, and the attempt a callback then starts is for the item that followed.
C3_DroppedAfterFourth ==
    [][/\ \A k \in DOMAIN messageQueue' : messageQueue'[k].att <= 4
       /\ (FailedWith({"429"}) /\ messageQueue[1].att < 4)
              => /\ Len(messageQueue') = Len(messageQueue)
                 /\ messageQueue'[1].message = messageQueue[1].message
                 /\ messageQueue'[1].att = messageQueue[1].att
       /\ (FailedWith({"429"}) /\ messageQueue[1].att = 4)
              => messageQueue' = Tail(messageQueue)
       /\ \A i \in DrainInvs :
              (drainPc[i] = "idle" /\ drainPc'[i] # "idle")
                  => /\ drainLoc'[i].ref = 1
                     /\ drainLoc'[i].message = messageQueue[1]
      ]_vars

\* The fourth 429 has just dropped an item and the next one is at the head,
\* not attempted yet.
C3_Witness ==
    /\ ev.op = "failed" /\ ev.outcome = "429" /\ ev.retries = 3
    /\ Len(messageQueue) = 1
    /\ messageQueue[1].att = 0

\* The same queued item, whatever its counters.
SameItem(a, b) == [a EXCEPT !.retries = 0, !.att = 0] = [b EXCEPT !.retries = 0, !.att = 0]

\* C4: the item of the attempt in flight is the head of the queue, and a step
\* either removes that head or keeps every item in its place (touching only
\* the head's counters) with new items added behind: no item is attempted or
\* removed while an earlier one is still queued.
C4_HeadOfLine ==
    [][/\ \A i \in DrainInvs :
              drainPc'[i] # "idle"
                  => /\ messageQueue' # <<>>
                     /\ drainLoc'[i].ref = 1
                     /\ SameItem(drainLoc'[i].message, messageQueue'[1])
       /\ \/ /\ InFlight # {}
             /\ messageQueue # <<>>
             /\ messageQueue' = Tail(messageQueue)
          \/ /\ Len(messageQueue') >= Len(messageQueue)
             /\ \A k \in DOMAIN messageQueue :
                    /\ SameItem(messageQueue'[k], messageQueue[k])
                    /\ k > 1 => messageQueue'[k] = messageQueue[k]
      ]_vars

\* The head is being attempted again after a 429 while a later item waits
\* behind it, not attempted.
C4_Witness ==
    /\ InFlight # {}
    /\ Len(messageQueue) = 2
    /\ messageQueue[1].retries >= 1
    /\ messageQueue[2].att = 0

C6_OneRootPerOpenPR ==
    \A pr \in PullRequests : bb[pr].state = "OPEN" => rootsPosted[pr] <= 1

\* The pull request of this model, its ThreadRecord key, and the step in
\* which a poll cycle has fetched its open snapshot and run the loop body.
ThePr == <<"r1", 1>>

Processed(p) ==
    /\ pollPc[p] = "list"
    /\ pollLoc[p].repo = 1
    /\ pollPc'[p] # "idle"
    /\ ToStr(1) \in pollLoc'[p].activePRIds

\* Some reviewer has neither approved nor requested changes.
PendingIn(rv) ==
    \E k \in DOMAIN rv.reviewers :
        ~ \E j \in DOMAIN rv.participants :
              /\ rv.participants[j].user = rv.reviewers[k]
              /\ \/ rv.participants[j].approved
                 \/ rv.participants[j].state = "changes_requested"

\* There is a reviewer and every reviewer has approved.
ApprovedIn(rv) ==
    /\ rv.reviewers # <<>>
    /\ \A k \in DOMAIN rv.reviewers :
           \E j \in DOMAIN rv.participants :
               /\ rv.participants[j].user = rv.reviewers[k]
               /\ rv.participants[j].approved

\* The step appends exactly one item, for the pull request.
EnqueuesOne ==
    /\ Len(messageQueue') = Len(messageQueue) + 1
    /\ SubSeq(messageQueue', 1, Len(messageQueue)) = messageQueue
    /\ messageQueue'[Len(messageQueue')].prId = 1
    /\ messageQueue'[Len(messageQueue')].repository = FullName(Workspace, "r1")
    /\ messageQueue'[Len(messageQueue')].retries = 0

Enqueued == messageQueue'[Len(messageQueue')]

C8_AllApprovedReply ==
    [][\A p \in PollInvs :
          (Processed(p) /\ store[1] # NoRecord /\ ApprovedIn(bb[ThePr].rv))
              => /\ EnqueuesOne
                 /\ Enqueued.message.kind = "approved"
                 /\ Enqueued.message.author = WithMention(Author)
                 /\ Enqueued.parentMessageId = store[1].messageId
      ]_vars

\* C9 as stated: a poll cycle that fetches the snapshot of a pull request
\* without a ThreadRecord enqueues exactly one root item for it, whatever the
\* reviewer state.
C9_RootForUnseen ==
    [][\A p \in PollInvs :
          (Processed(p) /\ store[1] = NoRecord)
              => /\ EnqueuesOne
                 /\ Enqueued.message.kind = "new"
                 /\ Enqueued.parentMessageId = <<>>
      ]_vars

\* C10 as stated: a poll cycle removes the ThreadRecord that a root delivery
\* stored for a pull request that is no longer open: once the repository's
\* open list has come back without it the cycle asks for its status, and on
\* an answer other than OPEN the store holds no entry for it.
C10_SweepRemoves ==
    [][\A p \in PollInvs :
          /\ ( /\ pollPc[p] = "list" /\ pollLoc[p].repo = 1
               /\ pollPc'[p] # "idle"
               /\ bb[ThePr].state = "MERGED"
               /\ store[1] # NoRecord
               /\ store[1].repository = FullName(Workspace, "r1")
               /\ file.doc = store /\ InFlight = {}
               /\ \E k \in DOMAIN pollLoc[p].storedPRs :
                      pollLoc[p].storedPRs[k].prId = ToStr(1) )
                 => /\ pollPc'[p] = "status"
                    /\ Head(pollLoc'[p].sweep).prId = ToStr(1)
          /\ ( /\ pollPc[p] = "status" /\ pollPc'[p] = "remove" )
                 => store'[ToNum(Head(pollLoc[p].sweep).prId)] = NoRecord
      ]_vars

\* C11 as stated, in the direction "no root message is posted without a
\* record being stored": when a delivery attempt that has posted the root
\* message of an open pull request ends, the store holds a ThreadRecord for
\* that pull request.
C11_RecordForPostedRoot ==
    [][\A i \in DrainInvs :
          (/\ drainPc[i] \in {"createThread", "saveStore", "readStore"}
           /\ drainPc'[i] = "idle"
           /\ drainLoc[i].message.prId # 0
           /\ bb[ItemPr(drainLoc[i].message)].state = "OPEN")
              => store'[drainLoc[i].message.prId] # NoRecord
      ]_vars

\* C12 as stated, for the pass run at startup: a step of the pass that
\* enqueues a pull-request notification is taken inside the working hours.
C12_OnlyInWorkHours ==
    [][(ev'.op = "startupPass" /\ Len(messageQueue') > Len(messageQueue))
           => ev'.outcome = "workHours"
      ]_vars

\* C13 as stated: whatever happens when the open list of a repository comes
\* back, the pass goes on (to that repository's sweep or to the next
\* repository) as long as a repository follows, in the poll cycle and in the
\* startup pass.
C13_NextRepositoryProcessed ==
    [][/\ \A p \in DOMAIN pollPc :
              (pollPc[p] = "list" /\ pollLoc[p].repo < Len(Repositories))
                  => pollPc'[p] # "idle"
       /\ (initPc = "list" /\ initRepo < Len(Repositories))
              => (initPc' = "list" /\ phase' = "init")
      ]_vars

\* The call p of the poll callback takes the step.
PollMoves(p) == pollPc'[p] # pollPc[p] \/ pollLoc'[p] # pollLoc[p]

\* C14: when the sweep calls removePR for a stored pull request, the call
\* changes nothing (map, file, no error raised, no write begun) if the map
\* has no entry for the id or the entry's repository is not the argument;
\* otherwise it deletes exactly that entry from the map, leaves every other
\* entry as it was, and the write that follows puts that map in the file.
C14_RemoveFrame ==
    [][\A p \in DOMAIN pollPc :
          /\ (pollPc[p] = "status" /\ PollMoves(p)
              /\ ev'.op = "status" /\ ev'.outcome \notin {"error", "open"})
                 => LET id == ToNum(Head(pollLoc[p].sweep).prId)
                        repository == Slug(Repositories[pollLoc[p].repo])
                    IN  IF \/ store[id] = NoRecord
                           \/ store[id].repository # repository
                        THEN /\ store' = store
                             /\ file' = file
                             /\ messageQueue' = messageQueue
                             /\ pollPc'[p] # "remove"
                        ELSE /\ store'[id] = NoRecord
                             /\ \A k \in PrIds \ {id} : store'[k] = store[k]
                             /\ pollPc'[p] = "remove"
                             /\ pollLoc'[p].content = store'
          /\ (pollPc[p] = "remove" /\ pollPc'[p] = "removeRead")
                 => file'.doc = pollLoc[p].content
      ]_vars

\* removePR has just returned without a change because the entry of the
\* pull request is now under another repository, and the entry is still there.
C14_Witness ==
    /\ ev.op = "status" /\ ev.outcome = "mismatch"
    /\ store[1] = DeliveredStore[1]
    /\ file.doc = store

C20_NoOverlap ==
    Cardinality({p \in DOMAIN pollPc : pollPc[p] # "idle"}) <= 1

\* What sendPullRequestNotification queued for the snapshot: the kind of the
\* message, "null" when it queued nothing.
RenderedKind ==
    IF messageQueue = <<>> THEN "null" ELSE messageQueue[1].message.kind

\* The positions of the pending reviewers in the reviewer list.
PendingAt(rv) ==
    {k \in DOMAIN rv.reviewers :
        ~ \E j \in DOMAIN rv.participants :
              /\ rv.participants[j].user = rv.reviewers[k]
              /\ \/ rv.participants[j].approved
                 \/ rv.participants[j].state = "changes_requested"}

\* C17: for a snapshot with a ThreadRecord the message is AllApproved exactly
\* when the state is OPEN, there is a reviewer and every reviewer has
\* approved; otherwise a reminder exactly when some reviewer is pending;
\* otherwise nothing is queued.
C17_Classification ==
    (phase = "output" /\ store[1] # NoRecord)
        => RenderedKind =
               IF bb[ThePr].state = "OPEN" /\ ApprovedIn(bb[ThePr].rv)
               THEN "approved"
               ELSE IF PendingIn(bb[ThePr].rv) THEN "reminder"
               ELSE "null"

\* Nothing was queued for an open snapshot without reviewers.
C17_Witness ==
    /\ phase = "output" /\ store[1] # NoRecord
    /\ bb[ThePr].state = "OPEN"
    /\ bb[ThePr].rv.reviewers = <<>>
    /\ messageQueue = <<>>

\* C18: for a snapshot with a ThreadRecord and a pending reviewer the message
\* is a reminder, a reply to the stored thread, whose lines are the pending
\* reviewers (with their chat mentions), each once, in the order of the
\* reviewer list.
C18_ReminderListsPending ==
    (phase = "output" /\ store[1] # NoRecord /\ PendingIn(bb[ThePr].rv))
        => LET rv == bb[ThePr].rv
               pend == PendingAt(rv)
               nth(j) == CHOOSE k \in pend :
                             Cardinality({m \in pend : m <= k}) = j
           IN  /\ Len(messageQueue) = 1
               /\ messageQueue[1].message.kind = "reminder"
               /\ messageQueue[1].parentMessageId = store[1].messageId
               /\ Len(messageQueue[1].message.lines) = Cardinality(pend)
               /\ \A j \in DOMAIN messageQueue[1].message.lines :
                      messageQueue[1].message.lines[j]
                          = WithMention(rv.reviewers[nth(j)])

\* Of two reviewers the first requested changes and the second did nothing:
\* the reminder lists the second only.
C18_Witness ==
    /\ phase = "output" /\ store[1] # NoRecord
    /\ Len(bb[ThePr].rv.reviewers) = 2
    /\ PendingAt(bb[ThePr].rv) = {2}
    /\ messageQueue # <<>>
    /\ messageQueue[1].message.lines = <<WithMention(bb[ThePr].rv.reviewers[2])>>
    /\ \E j \in DOMAIN bb[ThePr].rv.participants :
           bb[ThePr].rv.participants[j].state = "changes_requested"

\* A mapping saveMessageId accepts: all three parts present.
CompleteRecord(r) == r.messageId # <<>> /\ r.repository # <<>>

\* C16: saveMessageId rejects every call with an empty or zero prId, thread
\* id or repository; the delivery attempt that ends with that rejection
\* leaves the map in memory and the file as they were; hence no record
\* without a thread id or a repository is ever held, in memory or on file.
C16_InvalidPutStoresNothing ==
    /\ [](\A prId \in PrIds \cup {0}, messageId \in {Undefined, ToStr(2)},
             repository \in {<<>>, FullName(Workspace, "r1")} :
             (prId = 0 \/ messageId = Undefined \/ repository = <<>>)
                 => InvalidMessageData(prId, messageId, repository))
    /\ [](\A id \in PrIds :
             /\ store[id] # NoRecord => CompleteRecord(store[id])
             /\ file.doc[id] # NoRecord => CompleteRecord(file.doc[id]))
    /\ [][\A i \in DrainInvs :
             (drainPc[i] = "createThread" /\ ev'.op = "failed"
                  /\ ev'.outcome = "invalid")
                 => store' = store /\ file' = file]_vars

\* The root message of pull request 1 was posted, the thread response had no
\* id, and saveMessageId rejected the call: no record is held for it.
C16_Witness ==
    /\ ev.op = "failed" /\ ev.outcome = "invalid"
    /\ rootsPosted[ThePr] >= 1
    /\ store[1] = NoRecord
    /\ file.doc[1] # DeliveredStore[1]

\* C21: when a delivery attempt has just ended, delivered or failed with
\* whatever outcome (the item kept for a retry or removed), isProcessing is
\* false; and isProcessing is never true without a callback in flight.
C21_BackToIdle ==
    /\ ev.op \in {"delivered", "failed"} => ~isProcessing
    /\ isProcessing => InFlight # {}

\* An attempt has just ended on a 429 with the item kept for a retry, and
\* the queue is idle with that item at its head.
C21_Witness ==
    /\ ev.op = "failed" /\ ev.outcome = "429" /\ ev.retries < MAX_RETRIES
    /\ ~isProcessing /\ InFlight = {}
    /\ messageQueue # <<>>
    /\ messageQueue[1].retries = ev.retries + 1

\* C22: a step that makes the queue longer keeps every item already queued
\* in its place and unchanged, and the items it adds behind them have
\* retries = 0 and were never attempted; this holds while a delivery attempt
\* is in flight too, and the reference that attempt holds still points at the
\* head.  The step that ends an attempt removes, or increments the counter
\* of, the item the attempt took when it started.
C22_EnqueueAtTail ==
    [][/\ Len(messageQueue') > Len(messageQueue)
              => /\ SubSeq(messageQueue', 1, Len(messageQueue)) = messageQueue
                 /\ \A k \in (Len(messageQueue) + 1)..Len(messageQueue') :
                        messageQueue'[k].retries = 0 /\ messageQueue'[k].att = 0
                 /\ \A i \in InFlight :
                        /\ drainPc'[i] = drainPc[i]
                        /\ drainLoc'[i] = drainLoc[i]
                        /\ drainLoc[i].ref = 1
                        /\ SameItem(messageQueue'[1], drainLoc[i].message)
       /\ \A i \in InFlight :
              drainPc'[i] = "idle"
                  => /\ messageQueue # <<>>
                     /\ SameItem(messageQueue[1], drainLoc[i].message)
                     /\ \/ messageQueue' = Tail(messageQueue)
                        \/ messageQueue' =
                               [messageQueue EXCEPT ![1].retries = @ + 1]
      ]_vars

\* A root item is being delivered and its thread record is being written; a
\* reply into the thread this very attempt created is already queued behind
\* it, so it was enqueued while the attempt was in flight.
C22_Witness ==
    \E i \in InFlight :
        /\ drainPc[i] \in {"saveStore", "readStore"}
        /\ Len(messageQueue) = 2
        /\ SameItem(messageQueue[1], drainLoc[i].message)
        /\ messageQueue[2].parentMessageId = drainLoc[i].threadId
        /\ messageQueue[2].retries = 0

\* C23: the attempt for an item with a parent thread id is one call: when
\* it returns the attempt is over, the map in memory, the file and the root
\* count are as they were, and a response of any content removes the head.
\* An attempt changes the map only when thread creation returns for an item
\* with both prId and repository, and what it writes under that prId is the
\* id of the thread (which is not the id of the root message) with that
\* repository; an item without them ends there with the map as it was.
C23_DeliveryEffects ==
    [][\A i \in InFlight :
          /\ (drainPc[i] = "postReply" /\ drainPc'[i] # "postReply")
                 => /\ drainPc'[i] = "idle"
                    /\ drainLoc[i].message.parentMessageId # <<>>
                    /\ UNCHANGED <<store, file, rootsPosted>>
                    /\ ev'.op = "delivered"
                           => messageQueue' = Tail(messageQueue)
          /\ (drainPc'[i] # drainPc[i] /\ store' # store)
                 => LET message == drainLoc[i].message
                    IN  /\ drainPc[i] = "createThread"
                        /\ message.parentMessageId = <<>>
                        /\ message.prId # 0 /\ message.repository # <<>>
                        /\ drainLoc'[i].threadId
                               = ToStr(ToNum(drainLoc[i].messageId) + 1)
                        /\ drainLoc'[i].threadId # drainLoc[i].messageId
                        /\ store' = [store EXCEPT ![message.prId] =
                                        [messageId |-> drainLoc'[i].threadId,
                                         repository |-> message.repository]]
          /\ (drainPc[i] = "createThread" /\ drainPc'[i] # "createThread"
                  /\ (drainLoc[i].message.prId = 0
                          \/ drainLoc[i].message.repository = <<>>))
                 => drainPc'[i] = "idle" /\ store' = store
      ]_vars

\* Thread creation has returned for the root item of the pull request: the
\* map holds the thread id, one more than the id of the root message, under
\* the item's prId with the item's repository, and the write is under way.
C23_Witness ==
    \E i \in InFlight :
        /\ drainPc[i] = "saveStore"
        /\ drainLoc[i].message.prId = 1
        /\ drainLoc[i].messageId # <<>>
        /\ store[1] = [messageId |-> ToStr(ToNum(drainLoc[i].messageId) + 1),
                       repository |-> drainLoc[i].message.repository]
        /\ store[1].messageId # drainLoc[i].messageId

\* C24 as stated, where the queue never holds more than the one root item
\* of the open pull request: when the gateway accepts the item's root
\* message, it has accepted none for the item before.
C24_RootPostedOnce ==
    [][\A i \in DrainInvs :
          (/\ bb[ThePr].state = "OPEN"
           /\ drainPc[i] = "postRoot"
           /\ SameItem(drainLoc[i].message, RootItem)
           /\ drainPc'[i] = "createThread")
              => rootsPosted[ThePr] = 0]_vars

\* C25 as stated: every queued reply is about the pull request and the
\* repository of the record whose thread it is addressed to, and a snapshot
\* of a repository the map holds no record for is given a root message.
C25_ThreadOfSameRepository ==
    /\ \A k \in DOMAIN messageQueue :
           messageQueue[k].parentMessageId # <<>>
               => /\ store[messageQueue[k].prId].messageId
                         = messageQueue[k].parentMessageId
                  /\ store[messageQueue[k].prId].repository
                         = messageQueue[k].repository
    /\ (phase = "output" /\ ev.op = "notified"
            /\ store[1].repository # FullName(Workspace, ev.outcome))
           => /\ messageQueue # <<>>
              /\ messageQueue[1].message.kind = "new"
              /\ messageQueue[1].parentMessageId = <<>>

\* C26 as stated: when saveMessageId or removePR returns or throws, with no
\* other store call under way, the map in memory equals the document in
\* message-store.json.
C26_MemoryEqualsFile ==
    [][/\ \A i \in DrainInvs :
              (/\ drainPc[i] \in {"saveStore", "readStore"}
               /\ drainPc'[i] = "idle"
               /\ \A p \in DOMAIN pollPc : pollPc[p] \notin {"remove", "removeRead"})
                  => store' = file'.doc
       /\ \A p \in DOMAIN pollPc :
              (/\ pollPc[p] \in {"remove", "removeRead"}
               /\ pollPc'[p] \notin {"remove", "removeRead"}
               /\ \A i \in DrainInvs : drainPc[i] \notin {"saveStore", "readStore"})
                  => store' = file'.doc
      ]_vars

\* The last step removed the head of the queue: it was delivered, or it
\* failed with something other than a 429 or with its retries used up.
HeadRemoved ==
    \/ ev.op = "delivered"
    \/ /\ ev.op = "failed"
       /\ ev.outcome # "429" \/ ev.retries = MAX_RETRIES

\* C27: while the service is running, the item at the head of a non-empty
\* queue is eventually removed, whatever the gateway and the store answer
\* (so every item, each reaching the head in turn, is eventually removed);
\* and if from some point on the queue is never made longer, it is
\* eventually empty and stays empty.
C27_QueueDrains ==
    /\ (phase = "running" /\ messageQueue # <<>>) ~> HeadRemoved
    /\ <>[][Len(messageQueue') <= Len(messageQueue)]_vars
           => <>[](phase = "running" => messageQueue = <<>>)

\* The head was dropped after a 429 on each of its four attempts and the
\* queue is empty.
C27_Witness ==
    /\ phase = "running"
    /\ ev.op = "failed" /\ ev.outcome = "429" /\ ev.retries = MAX_RETRIES
    /\ messageQueue = <<>>
    /\ ~isProcessing

====
